---- MODULE Spec2Model ----
(***************************************************************************)
(* The finance agent of main.py: perception, then the plan / resolve /    *)
(* execute / update / persist loop, over the calculator functions of      *)
(* action.py and the JSON document of memory.py.                           *)
(*                                                                         *)
(* Python values are tagged records:                                       *)
(*   [t |-> "none"]                       None / JSON null                 *)
(*   [t |-> "num", n |-> n, d |-> d]      the number n/d, in lowest terms  *)
(*   [t |-> "str", s |-> "..."]           a string                         *)
(*   [t |-> "list", v |-> <<...>>]        a list                           *)
(*   [t |-> "dict", m |-> f]              a mapping, f a function on keys  *)
(* A dict that is program state (context, parameters, a tool result) is   *)
(* the bare function.  Numbers are exact rationals: 90.8 is 908/10.       *)
(***************************************************************************)
EXTENDS Integers, Sequences, FiniteSets, TLC

VARIABLES
    pc,              \* position of main(): see the actions below
    context,         \* main.py:208  the in-memory context
    executed_steps,  \* main.py:207
    results,         \* main.py:206
    step_count,      \* main.py:223
    d_plan,          \* main.py:227  the last DecisionOutput
    resolved_params, \* main.py:245
    ao,              \* main.py:249  the last ActionOutput
    mem_file,        \* memory.py:11 the persisted document data/memory.json
    pending,         \* memory.py:34 the state _save_state is writing
    ret,             \* where control returns once _save_state is over
    plan_resp,       \* the collaborator outcome decide_next_step received
    planner_calls,   \* collaborator calls made by decide_next_step so far
    ctx_last_iter,   \* the context as it stood after the last completed iteration
    call,            \* a direct call of one function: its name and arguments
    outcome          \* what the direct call produced

vars == <<pc, context, executed_steps, results, step_count, d_plan,
          resolved_params, ao, mem_file, pending, ret, plan_resp,
          planner_calls, ctx_last_iter, call, outcome>>

\* ------------------------------------------------------------- bounds
\* Iterations of the planning loop the model follows.
MaxSteps == 2

\* ------------------------------------------------------------- values
None == [t |-> "none"]
Str(s) == [t |-> "str", s |-> s]
List(v) == [t |-> "list", v |-> v]
Dict(m) == [t |-> "dict", m |-> m]
EmptyDict == << >>

Abs(x) == IF x < 0 THEN -x ELSE x

RECURSIVE GCD(_, _)
GCD(a, b) == IF b = 0 THEN a ELSE GCD(b, a % b)

\* The number n/d (d # 0) in lowest terms with a positive denominator.
Num(n, d) ==
    LET s == IF d < 0 THEN -1 ELSE 1
        g == GCD(Abs(n), Abs(d))
    IN  [t |-> "num", n |-> (s * n) \div g, d |-> (s * d) \div g]

Whole(n) == Num(n, 1)
\* A decimal given in tenths / thousandths, as the literals of the source are.
Tenths(n) == Num(n, 10)
Thousandths(n) == Num(n, 1000)

IsNum(v) == v.t = "num"
IsStr(v) == v.t = "str"
IsList(v) == v.t = "list"
IsDict(v) == v.t = "dict"

NumAdd(a, b) == Num(a.n * b.d + b.n * a.d, a.d * b.d)
NumSub(a, b) == Num(a.n * b.d - b.n * a.d, a.d * b.d)
NumMul(a, b) == Num(a.n * b.n, a.d * b.d)
NumDiv(a, b) == Num(a.n * b.d, a.d * b.n)
NumGt0(a) == a.n > 0
NumIsZero(a) == a.n = 0

\* Python truthiness (`not period`, `not data`).
Truthy(v) ==
    CASE v.t = "none" -> FALSE
      [] v.t = "num"  -> v.n # 0
      [] v.t = "str"  -> v.s # ""
      [] v.t = "list" -> v.v # << >>
      [] v.t = "dict" -> DOMAIN v.m # {}

\* Whether a value can be a dict key or be looked up in one.
Hashable(v) == v.t \in {"none", "num", "str"}

\* str(v) / f"{v}" for the values the messages are built from.  A number
\* that is no integer is shown as n/d, not in Python's decimal notation.
PyStr(v) ==
    CASE v.t = "none" -> "None"
      [] v.t = "str"  -> v.s
      [] v.t = "num"  -> IF v.d = 1 THEN ToString(v.n)
                         ELSE ToString(v.n) \o "/" \o ToString(v.d)
      [] v.t = "list" -> "[...]"
      [] v.t = "dict" -> "{...}"

\* `a in b` for two strings: a is a substring of b.
Contains(b, a) ==
    \E i \in 1..(Len(b) - Len(a) + 1) : SubSeq(b, i, i + Len(a) - 1) = a

\* The outcome of a Python call: a returned value or a raised exception.
Returned(v) == [raised |-> FALSE, value |-> v]
Raised(e) == [raised |-> TRUE, exc |-> e]

\* ------------------------------------------------------------- fixture
Symbols == {"AAPL", "MSFT", "AMZN"}
Quarters == {"Q1_2023", "Q2_2023", "Q3_2023", "Q4_2023", "Q1_2024", "Q2_2024"}
Metrics == {"revenue", "investment", "profit", "expenses"}

\* One quarter's figures, in tenths of a billion.
Figures(rev, inv, pro, exp) ==
    Dict([k \in Metrics |->
        CASE k = "revenue"    -> Tenths(rev)
          [] k = "investment" -> Tenths(inv)
          [] k = "profit"     -> Tenths(pro)
          [] k = "expenses"   -> Tenths(exp)])

DUMMY_DATA ==
    [s \in Symbols |->
      CASE s = "AAPL" ->
             [q \in Quarters |->
               CASE q = "Q1_2023" -> Figures(948, 251, 242, 706)
                 [] q = "Q2_2023" -> Figures(818, 238, 199, 619)
                 [] q = "Q3_2023" -> Figures(895, 243, 226, 669)
                 [] q = "Q4_2023" -> Figures(1196, 275, 339, 857)
                 [] q = "Q1_2024" -> Figures(908, 246, 231, 677)
                 [] q = "Q2_2024" -> Figures(853, 241, 215, 638)]
        [] s = "MSFT" ->
             [q \in Quarters |->
               CASE q = "Q1_2023" -> Figures(527, 153, 183, 344)
                 [] q = "Q2_2023" -> Figures(562, 161, 201, 361)
                 [] q = "Q3_2023" -> Figures(565, 163, 205, 360)
                 [] q = "Q4_2023" -> Figures(620, 175, 219, 401)
                 [] q = "Q1_2024" -> Figures(619, 172, 218, 401)
                 [] q = "Q2_2024" -> Figures(647, 181, 225, 422)]
        [] s = "AMZN" ->
             [q \in Quarters |->
               CASE q = "Q1_2023" -> Figures(1274, 425, 32, 1242)
                 [] q = "Q2_2023" -> Figures(1344, 448, 67, 1277)
                 [] q = "Q3_2023" -> Figures(1431, 472, 99, 1332)
                 [] q = "Q4_2023" -> Figures(1699, 523, 106, 1593)
                 [] q = "Q1_2024" -> Figures(1433, 468, 104, 1329)
                 [] q = "Q2_2024" -> Figures(1482, 481, 137, 1345)]]

\* The structured error value {"error": reason}.
ErrorValue(reason) == Dict([k \in {"error"} |-> Str(reason)])

\* ------------------------------------------------------------- tools
\* A string of four digits.
IsYear(v) ==
    /\ IsStr(v)
    /\ Len(v.s) = 4
    /\ \A k \in 1..4 :
         SubSeq(v.s, k, k) \in {"0", "1", "2", "3", "4", "5", "6", "7", "8", "9"}

\* get_financial_data taking every string of four digits for a year.
get_financial_data_any_year(symbol, period) ==
    IF ~Hashable(symbol) THEN Raised("unhashable type")
    ELSE IF ~(IsStr(symbol) /\ symbol.s \in DOMAIN DUMMY_DATA)
    THEN Returned(ErrorValue("No data available for symbol " \o PyStr(symbol)))
    ELSE IF ~Truthy(period) THEN Returned(Dict(DUMMY_DATA[symbol.s]))
    ELSE IF IsYear(period)
    THEN Returned(Dict([q \in {x \in Quarters : Contains(x, period.s)} |->
                           DUMMY_DATA[symbol.s][q]]))
    ELSE IF ~Hashable(period) THEN Raised("unhashable type")
    ELSE IF IsStr(period) /\ period.s \in DOMAIN DUMMY_DATA[symbol.s]
    THEN Returned(Dict([q \in {period.s} |-> DUMMY_DATA[symbol.s][q]]))
    ELSE Returned(ErrorValue("No data available for period " \o PyStr(period)))

\* get_financial_data(symbol, period=None)
get_financial_data(symbol, period) ==
    IF ~Hashable(symbol) THEN Raised("unhashable type")
    ELSE IF ~(IsStr(symbol) /\ symbol.s \in DOMAIN DUMMY_DATA)
    THEN Returned(ErrorValue("No data available for symbol " \o PyStr(symbol)))
    ELSE IF ~Truthy(period) THEN Returned(Dict(DUMMY_DATA[symbol.s]))
    ELSE IF period \in {Str("2023"), Str("2024")}
    THEN Returned(Dict([q \in {x \in Quarters : Contains(x, period.s)} |->
                           DUMMY_DATA[symbol.s][q]]))
    ELSE IF ~Hashable(period) THEN Raised("unhashable type")
    ELSE IF IsStr(period) /\ period.s \in DOMAIN DUMMY_DATA[symbol.s]
    THEN Returned(Dict([q \in {period.s} |-> DUMMY_DATA[symbol.s][q]]))
    ELSE Returned(ErrorValue("No data available for period " \o PyStr(period)))

\* The gain taken as a share of the revenue instead of the investment.
RoiOfPairOverRevenue(r, i) ==
    IF ~IsNum(i) THEN Raised("'>' not supported between instances")
    ELSE IF ~NumGt0(i) THEN Returned(Whole(0))
    ELSE IF ~IsNum(r) THEN Raised("unsupported operand type(s) for -")
    ELSE IF NumIsZero(r) THEN Raised("division by zero")
    ELSE Returned(NumMul(NumDiv(NumSub(r, i), r), Whole(100)))

\* ((r - i) / i) * 100 if i > 0 else 0 : the comparison is evaluated first,
\* the subtraction only when it is true.
RoiOfPair(r, i) ==
    IF ~IsNum(i) THEN Raised("'>' not supported between instances")
    ELSE IF ~NumGt0(i) THEN Returned(Whole(0))
    ELSE IF ~IsNum(r) THEN Raised("unsupported operand type(s) for -")
    ELSE Returned(NumMul(NumDiv(NumSub(r, i), i), Whole(100)))

\* A list comprehension over the outcomes of its elements: the first raised
\* exception ends it.
Comprehension(outs) ==
    IF \E k \in 1..Len(outs) : outs[k].raised
    THEN outs[CHOOSE k \in 1..Len(outs) :
                 outs[k].raised /\ \A j \in 1..(k - 1) : ~outs[j].raised]
    ELSE Returned(List([k \in 1..Len(outs) |-> outs[k].value]))

\* calculate_roi without the comparison of the lengths: zip stops at the
\* shorter list.
calculate_roi_zip(revenue, investment) ==
    IF IsList(revenue) /\ IsList(investment)
    THEN LET n == IF Len(revenue.v) < Len(investment.v)
                  THEN Len(revenue.v) ELSE Len(investment.v)
         IN  Comprehension([k \in 1..n |-> RoiOfPair(revenue.v[k], investment.v[k])])
    ELSE IF IsNum(revenue) /\ IsNum(investment)
    THEN RoiOfPair(revenue, investment)
    ELSE Returned(ErrorValue("Invalid input types for revenue and investment"))

\* calculate_roi(revenue, investment)
calculate_roi(revenue, investment) ==
    IF IsList(revenue) /\ IsList(investment)
    THEN IF Len(revenue.v) # Len(investment.v)
         THEN Returned(ErrorValue("Revenue and investment lists must be the same length"))
         ELSE Comprehension([k \in 1..Len(revenue.v) |->
                                RoiOfPair(revenue.v[k], investment.v[k])])
    ELSE IF IsNum(revenue) /\ IsNum(investment)
    THEN RoiOfPair(revenue, investment)
    ELSE Returned(ErrorValue("Invalid input types for revenue and investment"))

\* value / (1 + rate)
AdjustOne(value, rate) ==
    IF ~IsNum(rate) THEN Raised("unsupported operand type(s) for +")
    ELSE IF ~IsNum(value) THEN Raised("unsupported operand type(s) for /")
    ELSE IF NumIsZero(NumAdd(Whole(1), rate)) THEN Raised("division by zero")
    ELSE Returned(NumDiv(value, NumAdd(Whole(1), rate)))

\* apply_inflation_adjustment without the branch for a single number.
apply_inflation_adjustment_lists_only(values, rate) ==
    IF IsList(values)
    THEN Comprehension([k \in 1..Len(values.v) |-> AdjustOne(values.v[k], rate)])
    ELSE Returned(ErrorValue("Invalid input type for values"))

\* apply_inflation_adjustment(values, rate)
apply_inflation_adjustment(values, rate) ==
    IF IsList(values)
    THEN Comprehension([k \in 1..Len(values.v) |-> AdjustOne(values.v[k], rate)])
    ELSE IF IsNum(values) THEN AdjustOne(values, rate)
    ELSE Returned(ErrorValue("Invalid input type for values"))

\* generate_chart is named by execute_action and defined nowhere: evaluating
\* the name raises NameError.
generate_chart(params) == Raised("name 'generate_chart' is not defined")

\* ------------------------------------------------------------- dispatch
\* f(**parameters): the keyword binding of a call.  A name the signature does
\* not have, or a required name left out, raises TypeError before f runs.
BindKeywords(name, required, optional, parameters) ==
    LET unexpected == DOMAIN parameters \ (required \cup optional)
        missing == required \ DOMAIN parameters
    IN  IF unexpected # {}
        THEN Raised(name \o "() got an unexpected keyword argument '"
                         \o (CHOOSE k \in unexpected : TRUE) \o "'")
        ELSE IF missing # {}
        THEN Raised(name \o "() missing required positional argument '"
                         \o (CHOOSE k \in missing : TRUE) \o "'")
        ELSE Returned(None)

\* The argument bound to a parameter, or its default.
Arg(parameters, k, default) ==
    IF k \in DOMAIN parameters THEN parameters[k] ELSE default

AllowedFn ==
    {"get_financial_data", "calculate_roi", "apply_inflation_adjustment",
     "generate_chart"}

\* The call execute_action makes for a recognised function name.
CallTool(function_name, parameters) ==
    CASE function_name = "get_financial_data" ->
           LET b == BindKeywords(function_name, {"symbol"}, {"period"}, parameters)
           IN  IF b.raised THEN b
               ELSE get_financial_data(parameters["symbol"],
                                       Arg(parameters, "period", None))
      [] function_name = "calculate_roi" ->
           LET b == BindKeywords(function_name, {"revenue", "investment"}, {}, parameters)
           IN  IF b.raised THEN b
               ELSE calculate_roi(parameters["revenue"], parameters["investment"])
      [] function_name = "apply_inflation_adjustment" ->
           LET b == BindKeywords(function_name, {"values", "rate"}, {}, parameters)
           IN  IF b.raised THEN b
               ELSE apply_inflation_adjustment(parameters["values"], parameters["rate"])
      [] function_name = "generate_chart" -> generate_chart(parameters)

ActionOutput(success, result, message) ==
    [success |-> success, result |-> result, message |-> message]

\* execute_action without the except clause: a raised exception propagates.
execute_action_uncaught(function_name, parameters) ==
    IF function_name \notin AllowedFn
    THEN Returned(ActionOutput(FALSE, EmptyDict, "Unknown tool " \o function_name))
    ELSE LET res == CallTool(function_name, parameters)
         IN  IF res.raised
             THEN res
             ELSE Returned(ActionOutput(TRUE, function_name :> res.value,
                                        function_name \o " executed."))

\* execute_action that takes a tool's error value for a failure of the step.
execute_action_error_fails(function_name, parameters) ==
    IF function_name \notin AllowedFn
    THEN Returned(ActionOutput(FALSE, EmptyDict, "Unknown tool " \o function_name))
    ELSE LET res == CallTool(function_name, parameters)
         IN  IF res.raised
             THEN Returned(ActionOutput(FALSE, EmptyDict, res.exc))
             ELSE IF IsDict(res.value) /\ "error" \in DOMAIN res.value.m
             THEN Returned(ActionOutput(FALSE, EmptyDict, res.value.m["error"].s))
             ELSE Returned(ActionOutput(TRUE, function_name :> res.value,
                                        function_name \o " executed."))

\* execute_action(ai): the whole body is inside try / except Exception.
execute_action(function_name, parameters) ==
    IF function_name \notin AllowedFn
    THEN Returned(ActionOutput(FALSE, EmptyDict, "Unknown tool " \o function_name))
    ELSE LET res == CallTool(function_name, parameters)
         IN  IF res.raised
             THEN Returned(ActionOutput(FALSE, EmptyDict, res.exc))
             ELSE Returned(ActionOutput(TRUE, function_name :> res.value,
                                        function_name \o " executed."))

\* ------------------------------------------------------------- context update
\* The (key, value) writes of flatten_dict(prefix, d).
RECURSIVE FlattenWrites(_, _)
FlattenWrites(prefix, d) ==
    UNION { IF IsDict(d[k])
            THEN FlattenWrites(prefix \o "_" \o k, d[k].m)
            ELSE {<<prefix \o "_" \o k, d[k]>>} : k \in DOMAIN d }

\* The dict a set of writes leaves.  Two writes to one key would be settled by
\* the dict's insertion order; no result of a tool has two writes to one key.
DictOfWrites(writes) ==
    [key \in {w[1] : w \in writes} |-> (CHOOSE w \in writes : w[1] = key)[2]]

flatten_dict(prefix, d) == DictOfWrites(FlattenWrites(prefix, d))

\* WritesOfItem that flattens one level only: a deeper mapping is written whole.
WritesOfItemShallow(key, val) ==
    IF IsDict(val)
    THEN {<<key \o "_" \o k, val.m[k]>> : k \in DOMAIN val.m}
    ELSE {<<key, val>>}

\* main.py:274-278, for one item of ao.result.
WritesOfItem(key, val) ==
    IF IsDict(val) THEN FlattenWrites(key, val.m) ELSE {<<key, val>>}

\* UpdateContext that also records the message of a failed execution.
UpdateContextOnFailure(ctx, a) ==
    IF a.success /\ DOMAIN a.result # {}
    THEN DictOfWrites(UNION {WritesOfItem(k, a.result[k]) : k \in DOMAIN a.result})
         @@ ctx
    ELSE ("last_error" :> Str(a.message)) @@ ctx

\* UpdateContext that replaces the context by the writes of the result.
UpdateContextReplace(ctx, a) ==
    IF a.success /\ DOMAIN a.result # {}
    THEN DictOfWrites(UNION {WritesOfItem(k, a.result[k]) : k \in DOMAIN a.result})
    ELSE ctx

\* An update under which a key that is already in the context keeps its
\* value (setdefault in place of assignment).
UpdateContextKeepFirst(ctx, a) ==
    IF a.success /\ DOMAIN a.result # {}
    THEN ctx @@ DictOfWrites(UNION {WritesOfItem(k, a.result[k]) : k \in DOMAIN a.result})
    ELSE ctx

\* main.py:263-278: the context after the update step for ActionOutput a.
UpdateContext(ctx, a) ==
    IF a.success /\ DOMAIN a.result # {}
    THEN DictOfWrites(UNION {WritesOfItem(k, a.result[k]) : k \in DOMAIN a.result})
         @@ ctx
    ELSE ctx

\* ------------------------------------------------------------- collaborator
\* What a call of client.models.generate_content produces: a raised fault, or
\* a text.  A text is modelled by how it is fenced and by the JSON value its
\* body encodes (Undecodable when the body is no JSON):
\*   "none"  the body alone            "json"  ```json <body> ```
\*   "bare"  ``` <body> ```            "lang"  ```<other tag> <body> ```
Fault(desc) == [kind |-> "fault", desc |-> desc]
Text(fence, data) == [kind |-> "text", fence |-> fence, data |-> data]
Undecodable == [t |-> "undecodable"]

JsonLoads(data) ==
    IF data = Undecodable THEN Raised("Expecting value") ELSE Returned(data)

\* decision.py:129-134: the ```json branch cuts the body out, the other
\* branch strips the backquotes and leaves any language tag in the text.
PlannerDecode(resp) ==
    CASE resp.fence \in {"none", "json", "bare"} -> JsonLoads(resp.data)
      [] resp.fence = "lang" -> JsonLoads(Undecodable)

\* main.py:137-140: only the ```json fence is removed.
ResolverDecode(resp) ==
    CASE resp.fence \in {"none", "json"} -> JsonLoads(resp.data)
      [] resp.fence \in {"bare", "lang"} -> JsonLoads(Undecodable)

\* `key in data` for a decoded JSON value: key lookup in an object, element
\* test in an array, substring test in a string, TypeError otherwise.
JsonHas(data, key) ==
    CASE data.t = "dict" -> Returned(key \in DOMAIN data.m)
      [] data.t = "list" -> Returned(\E i \in 1..Len(data.v) : data.v[i] = Str(key))
      [] data.t = "str"  -> Returned(Contains(data.s, key))
      [] OTHER           -> Raised("argument is not iterable")

\* ------------------------------------------------------------- planner
NoStep == None
Step(function_name, parameters) ==
    [function_name |-> function_name, parameters |-> parameters]

DecisionOutput(next_step, done, rationale) ==
    [next_step |-> next_step, done |-> done, rationale |-> rationale]

\* A Step whose function_name is typed as a plain string.
StepValidAnyName(name, parameters) == IsStr(name) /\ IsDict(parameters)

\* Step(function_name=..., parameters=...): pydantic validation.
StepValid(name, parameters) ==
    /\ IsStr(name) /\ name.s \in AllowedFn
    /\ IsDict(parameters)

\* decision.py:134-140, for the decoded data.
DecideFromData(data) ==
    IF ~Truthy(data) THEN DecisionOutput(NoStep, TRUE, "All steps completed")
    ELSE LET has == JsonHas(data, "function_name")
         IN  IF has.raised
             THEN DecisionOutput(NoStep, TRUE, "LLM decision failed: " \o has.exc)
             ELSE IF ~has.value
             THEN DecisionOutput(NoStep, TRUE, "All steps completed")
             ELSE IF ~IsDict(data)
             THEN DecisionOutput(NoStep, TRUE,
                                 "LLM decision failed: indices must be integers")
             ELSE LET name == data.m["function_name"]
                      parameters == Arg(data.m, "parameters", Dict(EmptyDict))
                  IN  IF StepValid(name, parameters)
                      THEN DecisionOutput(Step(name.s, parameters.m), FALSE,
                                          "Next actionable step")
                      ELSE DecisionOutput(NoStep, TRUE,
                               "LLM decision failed: validation error for Step")

\* decide_next_step that calls the collaborator again after a raised fault.
decide_next_step_retry(responses) ==
    LET retried == responses[1].kind = "fault"
        resp == IF retried THEN responses[2] ELSE responses[1]
        out ==
          IF resp.kind = "fault"
          THEN DecisionOutput(NoStep, TRUE, "LLM decision failed: " \o resp.desc)
          ELSE LET dec == PlannerDecode(resp)
               IN  IF dec.raised
                   THEN DecisionOutput(NoStep, TRUE, "LLM decision failed: " \o dec.exc)
                   ELSE DecideFromData(dec.value)
    IN  [raised |-> FALSE, value |-> out, calls |-> IF retried THEN 2 ELSE 1]

\* decide_next_step(di, context, executed_steps).  responses[i] is what the
\* collaborator answers to the i-th call made by this invocation; the result
\* says how many calls were made.  The prompt is built from the context and
\* the executed steps, which decide nothing below.
decide_next_step(responses) ==
    LET resp == responses[1]
        out ==
          IF resp.kind = "fault"
          THEN DecisionOutput(NoStep, TRUE, "LLM decision failed: " \o resp.desc)
          ELSE LET dec == PlannerDecode(resp)
               IN  IF dec.raised
                   THEN DecisionOutput(NoStep, TRUE, "LLM decision failed: " \o dec.exc)
                   ELSE DecideFromData(dec.value)
    IN  [raised |-> FALSE, value |-> out, calls |-> 1]

\* ------------------------------------------------------------- resolver
\* [context.get(x, x) for x in v]
ResolveElement(x, ctx) ==
    IF ~Hashable(x) THEN Raised("unhashable type")
    ELSE IF IsStr(x) /\ x.s \in DOMAIN ctx THEN Returned(ctx[x.s])
    ELSE Returned(x)

\* A context pass that leaves a sequence unresolved when one of its entries
\* names no context key.
ContextResolvableEntrywise(v, ctx) ==
    \/ IsStr(v) /\ v.s \in DOMAIN ctx
    \/ IsList(v) /\ \A i \in 1..Len(v.v) : IsStr(v.v[i]) /\ v.v[i].s \in DOMAIN ctx

\* main.py:102-109: the names the context pass resolves ...
ContextResolvable(v, ctx) == (IsStr(v) /\ v.s \in DOMAIN ctx) \/ IsList(v)

\* ... and the value it gives one of them.
ContextResolve(v, ctx) ==
    IF IsStr(v) /\ v.s \in DOMAIN ctx THEN Returned(ctx[v.s])
    ELSE Comprehension([i \in 1..Len(v.v) |-> ResolveElement(v.v[i], ctx)])

\* resolve_params(params, context): the context pass alone.  Every other
\* value is copied as it is.
resolve_params(params, ctx) ==
    LET pass == [k \in DOMAIN params |->
                    IF ContextResolvable(params[k], ctx)
                    THEN ContextResolve(params[k], ctx)
                    ELSE Returned(params[k])]
    IN  IF \E k \in DOMAIN params : pass[k].raised
        THEN Raised("unhashable type")
        ELSE Returned([k \in DOMAIN params |-> pass[k].value])

\* main.py:153: k in llm_result and llm_result[k] is not None
LlmGives(llm_result, k) ==
    LET has == JsonHas(llm_result, k)
    IN  IF has.raised THEN has
        ELSE IF ~has.value THEN Returned(FALSE)
        ELSE IF ~IsDict(llm_result) THEN Raised("indices must be integers")
        ELSE Returned(llm_result.m[k] # None)

\* main.py:120-132: what the prompt carries (the whole context and the
\* unresolved parameters), and the value standing for "no prompt was sent".
Prompt(ctx, unresolved) == [context |-> ctx, unresolved |-> unresolved]
NoPrompt == Prompt(EmptyDict, EmptyDict)

\* resolve_params_with_llm(params, context); resp is what the collaborator
\* answers if it is called.  The result says how many calls were made and
\* with which prompt.
resolve_params_with_llm(params, ctx, resp) ==
    LET inCtx == {k \in DOMAIN params : ContextResolvable(params[k], ctx)}
        unresolved == DOMAIN params \ inCtx
        pass == [k \in inCtx |-> ContextResolve(params[k], ctx)]
        sent == Prompt(ctx, [k \in unresolved |-> params[k]])
    IN  IF \E k \in inCtx : pass[k].raised
        THEN [raised |-> TRUE, exc |-> "unhashable type", calls |-> 0,
              prompt |-> NoPrompt]
        ELSE LET resolved == [k \in inCtx |-> pass[k].value]
             IN  IF unresolved = {} \/ DOMAIN ctx = {}
                 THEN [raised |-> FALSE, value |-> resolved @@ params, calls |-> 0,
                       prompt |-> NoPrompt]
                 ELSE LET dec == IF resp.kind = "fault" THEN Raised(resp.desc)
                                 ELSE ResolverDecode(resp)
                          llm_result == IF dec.raised THEN Dict(EmptyDict) ELSE dec.value
                          gives == [k \in unresolved |-> LlmGives(llm_result, k)]
                      IN  IF \E k \in unresolved : gives[k].raised
                          THEN [raised |-> TRUE,
                                exc |-> (CHOOSE e \in {gives[k].exc : k \in
                                          {u \in unresolved : gives[u].raised}} : TRUE),
                                calls |-> 1, prompt |-> sent]
                          ELSE [raised |-> FALSE,
                                value |-> [k \in DOMAIN params |->
                                    IF k \in inCtx THEN resolved[k]
                                    ELSE IF gives[k].value THEN llm_result.m[k]
                                    ELSE params[k]],
                                calls |-> 1, prompt |-> sent]

\* ------------------------------------------------------------- persistence
\* The document data/memory.json: absent, present but not decodable ("bad"),
\* or holding a MemoryState ("ok").  history counts the run records.
MemoryState(ctx, history) == [context |-> ctx, history |-> history]
Document(status, state) == [status |-> status, state |-> state]
NoDocument == Document("absent", MemoryState(EmptyDict, 0))
\* What open(MEM_FILE, "w") leaves before anything is written: an empty file.
Truncated == Document("bad", MemoryState(EmptyDict, 0))

\* memory.py:29  MemoryState(**json.loads(MEM_FILE.read_text())): decoding
\* and validation raise on a document that holds no MemoryState.  What
\* model_dump_json wrote is read back as it was: the values of a context
\* (numbers, strings, None, lists, string-keyed mappings) are JSON values.
ReadState(file) ==
    IF file.status = "ok" THEN Returned(file.state) ELSE Raised("JSONDecodeError")

\* _load_state that reads a state without its context.
load_state_without_context(file) ==
    IF file.status = "absent" THEN MemoryState(EmptyDict, 0)
    ELSE LET read == ReadState(file)
         IN  IF read.raised THEN MemoryState(EmptyDict, 0)
             ELSE MemoryState(EmptyDict, read.value.history)

\* _load_state(): the except clause swallows whatever the read raised.
load_state(file) ==
    IF file.status = "absent" THEN MemoryState(EmptyDict, 0)
    ELSE LET read == ReadState(file)
         IN  IF read.raised THEN MemoryState(EmptyDict, 0) ELSE read.value

\* load_context()
load_context(file) == load_state(file).context

\* main.py:209-213: context.setdefault("inflation_rates", {...})
InflationSeed ==
    Dict([y \in {"2023", "2024", "2025"} |->
        CASE y = "2023" -> Thousandths(45)
          [] y = "2024" -> Thousandths(31)
          [] y = "2025" -> Thousandths(28)])

SetDefault(ctx, key, val) == IF key \in DOMAIN ctx THEN ctx ELSE (key :> val) @@ ctx

\* ------------------------------------------------------------- inputs
Params2(k1, v1, k2, v2) == (k1 :> v1) @@ (k2 :> v2)

\* A planner answer naming a step.
StepJson(function_name, parameters) ==
    Dict(Params2("function_name", Str(function_name), "parameters", Dict(parameters)))

Fetch(symbol, period) ==
    StepJson("get_financial_data", Params2("symbol", Str(symbol), "period", Str(period)))

\* The steps the planner is offered in the model.
PlannedSteps ==
    { Text("json", Fetch("AAPL", "Q1_2024")),
      Text("none", Fetch("MSFT", "Q1_2024")),
      Text("bare", Fetch("TSLA", "Q1_2024")),
      Text("json", StepJson("calculate_roi",
          Params2("revenue", Str("get_financial_data_Q1_2024_revenue"),
                  "investment", Str("get_financial_data_Q1_2024_investment")))),
      Text("json", StepJson("calculate_roi",
          Params2("revenue", Str("AAPL_Q1_2024_revenue"),
                  "investment", Str("AAPL_Q1_2024_investment")))),
      Text("json", StepJson("apply_inflation_adjustment",
          Params2("values", List(<<Str("calculate_roi")>>),
                  "rate", Str("inflation_rates")))),
      Text("json", StepJson("apply_inflation_adjustment",
          Params2("values", Str("calculate_roi"), "rate", Thousandths(31)))),
      Text("json", StepJson("generate_chart",
          Params2("data", Str("calculate_roi"), "type", Str("bar")))) }

\* The answers that name no step.
NonSteps ==
    { Fault("503 UNAVAILABLE"),
      Text("none", Undecodable),
      Text("lang", Dict(EmptyDict)),
      Text("json", Dict(EmptyDict)),
      Text("none", Dict("reason" :> Str("no further steps or missing data"))),
      Text("json", Dict(Params2("function_name", None, "parameters", Dict(EmptyDict)))),
      Text("json", StepJson("download_prompt", EmptyDict)),
      Text("none", Whole(0)),
      Text("none", Whole(7)) }

PlannerResponses == PlannedSteps \cup NonSteps

\* The answers of the semantic-matching collaborator in the model.
ResolverResponses ==
    { Fault("503 UNAVAILABLE"),
      Text("json", Dict(Params2("revenue", Tenths(908), "investment", Tenths(246)))),
      Text("none", Dict(Params2("revenue", None, "rate", Whole(-1)))),
      Text("none", None) }

\* The documents a run may find: none, an undecodable one, one without a
\* context, and the one an earlier run that fetched MSFT Q1_2024 left.
EarlierContext ==
    UpdateContext("inflation_rates" :> InflationSeed,
        execute_action("get_financial_data",
            Params2("symbol", Str("MSFT"), "period", Str("Q1_2024"))).value)

InitialDocuments ==
    { NoDocument,
      Truncated,
      Document("ok", MemoryState(EmptyDict, 0)),
      Document("ok", MemoryState(EarlierContext, 1)) }

\* ------------------------------------------------------------- main()
NoCall == [op |-> "none"]
NoOutput == ActionOutput(FALSE, EmptyDict, "")
NoPlan == DecisionOutput(NoStep, FALSE, "")

Init ==
    /\ pc = "perceive"
    /\ mem_file \in InitialDocuments
    /\ context = EmptyDict
    /\ executed_steps = << >>
    /\ results = << >>
    /\ step_count = 0
    /\ d_plan = NoPlan
    /\ resolved_params = EmptyDict
    /\ ao = NoOutput
    /\ pending = MemoryState(EmptyDict, 0)
    /\ ret = "plan"
    /\ plan_resp = Fault("")
    /\ planner_calls = 0
    /\ ctx_last_iter = load_context(mem_file)
    /\ call = NoCall
    /\ outcome = NoCall

\* main.py:200  perceive(...) is called outside any try: a fault of the
\* collaborator, or an answer that does not decode, leaves main().
Perceive ==
    /\ pc = "perceive"
    /\ \E ok \in BOOLEAN : pc' = IF ok THEN "load" ELSE "aborted"
    /\ UNCHANGED <<context, executed_steps, results, step_count, d_plan,
                   resolved_params, ao, mem_file, pending, ret, plan_resp,
                   planner_calls, ctx_last_iter, call, outcome>>

\* main.py:206-213
LoadContext ==
    /\ pc = "load"
    /\ context' = SetDefault(load_context(mem_file), "inflation_rates", InflationSeed)
    /\ executed_steps' = << >>
    /\ results' = << >>
    /\ step_count' = 0
    /\ pc' = "plan"
    /\ UNCHANGED <<d_plan, resolved_params, ao, mem_file, pending, ret,
                   plan_resp, planner_calls, ctx_last_iter, call, outcome>>

\* main.py:226-227.  The model follows MaxSteps iterations: after them the
\* planner is offered only the answers that name no step.
Plan ==
    /\ pc = "plan"
    /\ \E first \in PlannerResponses, second \in {Text("json", Dict(EmptyDict))} :
         /\ first \in PlannedSteps => step_count < MaxSteps
         /\ LET r == decide_next_step(<<first, second>>)
            IN  /\ planner_calls' = planner_calls + r.calls
                /\ plan_resp' = first
                /\ IF r.raised
                   THEN pc' = "aborted" /\ UNCHANGED d_plan
                   ELSE pc' = "decided" /\ d_plan' = r.value
    /\ UNCHANGED <<context, executed_steps, results, step_count,
                   resolved_params, ao, mem_file, pending, ret,
                   ctx_last_iter, call, outcome>>

\* Break with the test inverted.
BreakInverted(dp) == ~dp.done

\* main.py:233  if d_plan.done: break
Break(dp) == dp.done

\* main.py:233-241.  step.function_name on a missing step raises.
CheckDone ==
    /\ pc = "decided"
    /\ IF Break(d_plan)
       THEN pc' = "complete" /\ UNCHANGED step_count
       ELSE IF d_plan.next_step = NoStep
       THEN pc' = "aborted" /\ step_count' = step_count + 1
       ELSE pc' = "resolve" /\ step_count' = step_count + 1
    /\ UNCHANGED <<context, executed_steps, results, d_plan,
                   resolved_params, ao, mem_file, pending, ret, plan_resp,
                   planner_calls, ctx_last_iter, call, outcome>>

\* main.py:245
Resolve ==
    /\ pc = "resolve"
    /\ \E resp \in ResolverResponses :
         LET r == resolve_params_with_llm(d_plan.next_step.parameters, context, resp)
         IN  IF r.raised
             THEN pc' = "aborted" /\ UNCHANGED resolved_params
             ELSE pc' = "execute" /\ resolved_params' = r.value
    /\ UNCHANGED <<context, executed_steps, results, step_count, d_plan,
                   ao, mem_file, pending, ret, plan_resp,
                   planner_calls, ctx_last_iter, call, outcome>>

\* main.py:249-251
Execute ==
    /\ pc = "execute"
    /\ LET r == execute_action(d_plan.next_step.function_name, resolved_params)
       IN  IF r.raised
           THEN pc' = "aborted" /\ UNCHANGED <<ao, results, executed_steps>>
           ELSE /\ ao' = r.value
                /\ results' = Append(results, r.value)
                /\ executed_steps' = Append(executed_steps, d_plan.next_step)
                /\ pc' = "update"
    /\ UNCHANGED <<context, step_count, d_plan, resolved_params,
                   mem_file, pending, ret, plan_resp,
                   planner_calls, ctx_last_iter, call, outcome>>

\* main.py:263-278
Update ==
    /\ pc = "update"
    /\ context' = UpdateContext(context, ao)
    /\ pc' = "save"
    /\ UNCHANGED <<executed_steps, results, step_count, d_plan,
                   resolved_params, ao, mem_file, pending, ret, plan_resp,
                   planner_calls, ctx_last_iter, call, outcome>>

\* main.py:284  memory.save_context(context), up to the open() of
\* _save_state (memory.py:68-69, 36): the state to write is built from the
\* document, then the file is opened for writing, which empties it.
SaveContext ==
    /\ pc = "save"
    /\ pending' = [load_state(mem_file) EXCEPT !.context = context]
    /\ mem_file' = Truncated
    /\ ret' = "plan"
    /\ pc' = "write"
    /\ UNCHANGED <<context, executed_steps, results, step_count, d_plan,
                   resolved_params, ao, plan_resp,
                   planner_calls, ctx_last_iter, call, outcome>>

\* memory.py:37  f.write(...) and the close of the file.  When it ends a
\* save_context the iteration is complete.
WriteState ==
    /\ pc = "write"
    /\ mem_file' = Document("ok", pending)
    /\ pc' = ret
    /\ ctx_last_iter' = IF ret = "plan" THEN context ELSE ctx_last_iter
    /\ UNCHANGED <<context, executed_steps, results, step_count, d_plan,
                   resolved_params, ao, pending, ret, plan_resp,
                   planner_calls, call, outcome>>

\* main.py:287-295  memory.save_run(...), up to the open() of _save_state.
SaveRun ==
    /\ pc = "complete"
    /\ pending' = [load_state(mem_file) EXCEPT !.history = @ + 1]
    /\ mem_file' = Truncated
    /\ ret' = "finished"
    /\ pc' = "write"
    /\ UNCHANGED <<context, executed_steps, results, step_count, d_plan,
                   resolved_params, ao, plan_resp,
                   planner_calls, ctx_last_iter, call, outcome>>

Next ==
    \/ Perceive
    \/ LoadContext
    \/ Plan
    \/ CheckDone
    \/ Resolve
    \/ Execute
    \/ Update
    \/ SaveContext
    \/ WriteState
    \/ SaveRun

Spec == Init /\ [][Next]_vars

\* The run with the scheduling of a sequential program: it takes its next
\* step whenever it has one.
FairSpec == Spec /\ WF_vars(Next)

\* The process may die at any point of a run.
Crash ==
    /\ pc \notin {"finished", "aborted", "crashed"}
    /\ pc' = "crashed"
    /\ UNCHANGED <<context, executed_steps, results, step_count, d_plan,
                   resolved_params, ao, mem_file, pending, ret, plan_resp,
                   planner_calls, ctx_last_iter, call, outcome>>

CrashNext == Next \/ Crash

CrashSpec == Init /\ [][CrashNext]_vars

\* ------------------------------------------------------------- helpers of the claims
IsPrefix(a, b) == Len(a) <= Len(b) /\ SubSeq(b, 1, Len(a)) = a

EndsWith(s, suffix) ==
    Len(s) >= Len(suffix) /\ SubSeq(s, Len(s) - Len(suffix) + 1, Len(s)) = suffix

\* The loop of main.py:224-284.
InLoop ==
    \/ pc \in {"plan", "decided", "resolve", "execute", "update", "save"}
    \/ pc = "write" /\ ret = "plan"

SomeExecutionFailed == \E i \in 1..Len(results) : ~results[i].success

\* ------------------------------------------------------------- C1
\* C1: the loop is left for COMPLETE exactly by the step that follows a
\* decision with done = TRUE; after a tool execution with success = FALSE the
\* driver goes on through the save to the next call of the planner.
LoopExitsExactlyOnDone ==
    [][ /\ (pc # "complete" /\ pc' = "complete") <=> (pc = "decided" /\ d_plan.done)
        /\ (~ao.success /\ pc = "update") => pc' = "save"
        /\ (~ao.success /\ pc = "save") => (pc' = "write" /\ ret' = "plan")
        /\ (~ao.success /\ pc = "write" /\ ret = "plan") => pc' = "plan"
        /\ (~ao.success /\ pc = "plan" /\ step_count > 0) => pc' = "decided" ]_vars

\* A run that completed by DONE after a failed tool execution.
CompletedAfterFailure ==
    pc = "complete" /\ d_plan.done /\ SomeExecutionFailed

\* ------------------------------------------------------------- C2
\* C2: from every state of the loop the run reaches COMPLETE.
LoopTerminates == InLoop ~> (pc \in {"complete", "finished"})

\* ------------------------------------------------------------- C3
\* C3: once loaded, the context is changed only by the update step after a
\* tool execution with success = TRUE; the planner call, the resolver and the
\* iteration of a failed execution leave it as it is.
ContextChangedOnlyByUpdate ==
    [][ /\ (pc # "load" /\ context' # context) => (pc = "update" /\ ao.success)
        /\ pc \in {"plan", "decided", "resolve", "execute"} => context' = context
        /\ (pc = "update" /\ ~ao.success) => context' = context ]_vars

\* A second iteration changed the context after an earlier one had failed.
ContextChangedAfterFailure ==
    /\ pc = "save" /\ ao.success /\ Len(results) >= 2
    /\ SomeExecutionFailed
    /\ context # ctx_last_iter

\* ------------------------------------------------------------- C4
\* C4: every step leaves the executed steps a prefix of what they become and
\* the context keys a subset of what they become.
StepsAndContextGrow ==
    [][ /\ IsPrefix(executed_steps, executed_steps')
        /\ DOMAIN context \subseteq DOMAIN context' ]_vars

\* Two steps were executed and the second added keys to the context.
GrewTwice ==
    /\ pc = "save" /\ Len(executed_steps) >= 2
    /\ DOMAIN ctx_last_iter # DOMAIN context
    /\ DOMAIN ctx_last_iter \subseteq DOMAIN context
    /\ "inflation_rates" \in DOMAIN ctx_last_iter

\* ------------------------------------------------------------- C5
\* C5: after a successful get_financial_data(symbol = S, period = P) for a
\* known symbol and a quarter, the context holds the fixture value of S, P, M
\* under the key S_P_M for every metric M.
FetchWritesSymbolKeys ==
    ( /\ pc = "save" /\ ao.success
      /\ d_plan.next_step.function_name = "get_financial_data"
      /\ DOMAIN resolved_params = {"symbol", "period"}
      /\ IsStr(resolved_params["symbol"]) /\ resolved_params["symbol"].s \in Symbols
      /\ IsStr(resolved_params["period"]) /\ resolved_params["period"].s \in Quarters )
    => LET S == resolved_params["symbol"].s
           P == resolved_params["period"].s
       IN  \A M \in Metrics :
             /\ (S \o "_" \o P \o "_" \o M) \in DOMAIN context
             /\ context[S \o "_" \o P \o "_" \o M] = DUMMY_DATA[S][P].m[M]

\* ------------------------------------------------------------- C7
\* C7: when the process dies, the persisted context is the in-memory context
\* of the last completed iteration.
CrashKeepsLastIteration ==
    pc = "crashed" => load_context(mem_file) = ctx_last_iter

\* ------------------------------------------------------------- C8
\* The collaborator outcomes that are no step: a raised fault, a text that
\* does not decode, the empty object, an object without a function name.
NotAStep(resp) ==
    \/ resp.kind = "fault"
    \/ resp.kind = "text" /\ (resp.data = Undecodable \/ resp.fence = "lang")
    \/ resp.kind = "text" /\ resp.data = Dict(EmptyDict)
    \/ resp.kind = "text" /\ IsDict(resp.data) /\ "function_name" \notin DOMAIN resp.data.m

\* C8: decide_next_step returns (never raises), has made one collaborator
\* call per invocation, and for an outcome that is no step returns done = TRUE
\* without a next step and with a rationale, which ends with the fault's
\* description when the outcome is a raised fault.
PlannerDoneOnNonStep ==
    /\ [][pc = "plan" => pc' = "decided"]_vars
    /\ [](pc = "decided" =>
            /\ planner_calls = step_count + 1
            /\ NotAStep(plan_resp) =>
                 /\ d_plan.done
                 /\ d_plan.next_step = NoStep
                 /\ d_plan.rationale # ""
                 /\ plan_resp.kind = "fault" =>
                      EndsWith(d_plan.rationale, plan_resp.desc))

\* The planner received a raised fault in a later iteration and answered DONE.
PlannerFaultGaveDone ==
    /\ pc = "decided" /\ step_count >= 1
    /\ plan_resp.kind = "fault" /\ plan_resp.desc # ""
    /\ d_plan.done

\* ------------------------------------------------------------- direct calls
\* One function called directly with arguments drawn from the sets below.
\* In the record of a call a name is held as Str and a mapping as Dict.
DirectCallOf(op, args) == [op |-> op, args |-> args]

Scalars == {Tenths(908), Tenths(246), Whole(0), Whole(-1), Str("n/a"), None}
Lists ==
    { List(<< >>),
      List(<<Tenths(908), Tenths(853)>>),
      List(<<Tenths(246), Tenths(241)>>),
      List(<<Tenths(246)>>),
      List(<<Str("n/a")>>),
      List(<<Whole(0), Whole(-1)>>) }
Rates == {Whole(0), Thousandths(31), Whole(-1), Str("3%"), None, InflationSeed}

SymbolArgs == {Str("AAPL"), Str("AMZN"), Str("TSLA"), None, List(<<Str("AAPL")>>)}
PeriodArgs ==
    {None, Str(""), Str("2023"), Str("2024"), Str("2025"), Str("Q1_2024"),
     Str("Q4_2023"), Str("Q9_2024"), Whole(2024), Whole(0), List(<< >>),
     List(<<Str("Q1_2024")>>)}

ParameterSets ==
    { EmptyDict,
      Params2("symbol", Str("AAPL"), "period", Str("Q1_2024")),
      Params2("symbol", Str("TSLA"), "period", Str("Q1_2024")),
      "symbol" :> Str("MSFT"),
      Params2("ticker", Str("AAPL"), "period", Str("Q1_2024")),
      Params2("revenue", Tenths(908), "investment", Tenths(246)),
      Params2("revenue", List(<<Str("n/a")>>), "investment", List(<<Tenths(246)>>)),
      Params2("revenue", Tenths(908), "investment", Whole(0)),
      Params2("values", List(<<Tenths(908), Tenths(853)>>), "rate", Thousandths(31)),
      Params2("values", Tenths(908), "rate", Whole(-1)),
      Params2("values", Tenths(908), "rate", InflationSeed),
      Params2("data", List(<<Tenths(908)>>), "type", Str("bar")) }

FunctionNames == AllowedFn \cup {"download_prompt", "get_data", ""}

\* Nested results: the one of the specification, one three levels deep, a
\* fetched quarter, an error value, and values that are no mapping.
NestedResults ==
    { Dict("Q1_2024" :> Dict("revenue" :> Tenths(908))),
      Dict(Params2("a", Dict(Params2("b", Dict(Params2("c", Whole(1), "d", Whole(2))),
                                     "e", Str("x"))),
                   "f", Dict(EmptyDict))),
      Dict("Q1_2024" :> DUMMY_DATA["AAPL"]["Q1_2024"]),
      Dict(DUMMY_DATA["AMZN"]),
      ErrorValue("No data available for symbol TSLA"),
      Dict(EmptyDict),
      Tenths(908),
      List(<<Tenths(908), Dict("k" :> Whole(1))>>) }

OutputKeys == {"X", "get_financial_data"}
StartContexts == {"inflation_rates" :> InflationSeed, EarlierContext}

\* Parameter mappings for the resolver: references to keys a fetch wrote,
\* literals, a sequence with a matched and an unmatched entry beside a
\* reference, a reference beside a number, a sequence holding a sequence,
\* no parameter, one number.
ResolverParams ==
    { Params2("revenue", Str("get_financial_data_Q1_2024_revenue"),
              "investment", Str("get_financial_data_Q1_2024_investment")),
      Params2("symbol", Str("AAPL"), "period", Str("Q1_2024")),
      Params2("values", List(<<Str("calculate_roi"), Str("AAPL_Q1_2024_revenue")>>),
              "rate", Str("inflation_rates")),
      Params2("values", Str("latest"), "rate", Thousandths(31)),
      Params2("revenue", List(<<List(<<Tenths(908)>>)>>), "investment", Tenths(246)),
      EmptyDict,
      "revenue" :> Tenths(908) }

\* A context in which the value of one key is the name of another.
ChainedContext ==
    Params2("latest", Str("calculate_roi"), "calculate_roi", Tenths(2691))
        @@ ("inflation_rates" :> InflationSeed)

ResolverContexts == {EmptyDict, ChainedContext} \cup StartContexts

\* The collaborator's answers to a direct call of the resolver: those of a
\* run, an answer in a fence the resolver does not remove, a number, a
\* string, an array, and an object that names a context key.
MatcherAnswers ==
    ResolverResponses \cup
    { Text("bare", Dict("revenue" :> Tenths(908))),
      Text("none", Whole(7)),
      Text("none", Str("revenue")),
      Text("json", List(<<Str("rate")>>)),
      Text("json", Dict(Params2("revenue", Str("get_financial_data_Q1_2024_revenue"),
                                "symbol", Str("MSFT")))) }

\* Two resolutions in a row against one context: the second is given what
\* the first returned; a fault of the first leaves the second undone.
resolve_twice(params, ctx, resp1, resp2) ==
    LET first == resolve_params_with_llm(params, ctx, resp1)
    IN  [first |-> first,
         second |-> IF first.raised THEN first
                    ELSE resolve_params_with_llm(first.value, ctx, resp2)]

DirectCalls ==
    {DirectCallOf("calculate_roi", <<r, i>>) : r \in Scalars \cup Lists, i \in Scalars \cup Lists}
    \cup {DirectCallOf("apply_inflation_adjustment", <<v, r>>) :
             v \in Scalars \cup Lists, r \in Rates}
    \cup {DirectCallOf("get_financial_data", <<s, p>>) : s \in SymbolArgs, p \in PeriodArgs}
    \cup {DirectCallOf("execute_action", <<Str(f), Dict(ps)>>) : f \in FunctionNames, ps \in ParameterSets}
    \cup {DirectCallOf("update_context", <<Dict(c), ActionOutput(TRUE, k :> v, k \o " executed.")>>) :
             c \in StartContexts, k \in OutputKeys, v \in NestedResults}
    \cup {DirectCallOf("resolve_params_with_llm", <<Dict(ps), Dict(c), a>>) :
             ps \in ResolverParams, c \in ResolverContexts, a \in MatcherAnswers}
    \cup {DirectCallOf("resolve_params", <<Dict(ps), Dict(c)>>) :
             ps \in ResolverParams, c \in ResolverContexts}
    \cup {DirectCallOf("resolve_twice", <<Dict(ps), Dict(c), a, b>>) :
             ps \in ResolverParams, c \in ResolverContexts,
             a \in MatcherAnswers, b \in MatcherAnswers}

\* What the call produces.
Apply(c) ==
    CASE c.op = "calculate_roi" -> calculate_roi(c.args[1], c.args[2])
      [] c.op = "apply_inflation_adjustment" ->
           apply_inflation_adjustment(c.args[1], c.args[2])
      [] c.op = "get_financial_data" -> get_financial_data(c.args[1], c.args[2])
      [] c.op = "execute_action" -> execute_action(c.args[1].s, c.args[2].m)
      [] c.op = "update_context" -> Returned(UpdateContext(c.args[1].m, c.args[2]))
      [] c.op = "resolve_params_with_llm" ->
           resolve_params_with_llm(c.args[1].m, c.args[2].m, c.args[3])
      [] c.op = "resolve_params" -> resolve_params(c.args[1].m, c.args[2].m)
      [] c.op = "resolve_twice" ->
           resolve_twice(c.args[1].m, c.args[2].m, c.args[3], c.args[4])

CallInit ==
    /\ pc = "direct"
    /\ call \in DirectCalls
    /\ outcome = NoCall
    /\ mem_file = NoDocument
    /\ context = EmptyDict
    /\ executed_steps = << >>
    /\ results = << >>
    /\ step_count = 0
    /\ d_plan = NoPlan
    /\ resolved_params = EmptyDict
    /\ ao = NoOutput
    /\ pending = MemoryState(EmptyDict, 0)
    /\ ret = "plan"
    /\ plan_resp = Fault("")
    /\ planner_calls = 0
    /\ ctx_last_iter = EmptyDict

DirectCall ==
    /\ pc = "direct"
    /\ outcome' = Apply(call)
    /\ pc' = "returned"
    /\ UNCHANGED <<context, executed_steps, results, step_count, d_plan,
                   resolved_params, ao, mem_file, pending, ret, plan_resp,
                   planner_calls, ctx_last_iter, call>>

CallSpec == CallInit /\ [][DirectCall]_vars

Called(op) == pc = "returned" /\ call.op = op

\* ------------------------------------------------------------- C6
\* The leaves of a nested mapping: the path of sub-keys to each value that is
\* no mapping, with the value.
RECURSIVE Leaves(_)
Leaves(d) ==
    UNION { IF IsDict(d[k])
            THEN {<<(<<k>>) \o l[1], l[2]>> : l \in Leaves(d[k].m)}
            ELSE {<<(<<k>>), d[k]>>} : k \in DOMAIN d }

\* X_k1_..._kn
RECURSIVE JoinPath(_, _)
JoinPath(x, path) ==
    IF path = << >> THEN x ELSE JoinPath(x \o "_" \o Head(path), Tail(path))

\* C6: after the update for a successful result that stores a mapping under
\* X, the context holds every leaf of the mapping under X_k1_..._kn, holds
\* under those keys no mapping, and is otherwise what it was.
FlatteningWritesLeaves ==
    Called("update_context") =>
      LET before == call.args[1].m
          X == CHOOSE k \in DOMAIN call.args[2].result : TRUE
          val == call.args[2].result[X]
          after == outcome.value
      IN  IsDict(val) =>
            LET leaves == Leaves(val.m)
                keys == {JoinPath(X, l[1]) : l \in leaves}
            IN  /\ \A l \in leaves :
                     /\ JoinPath(X, l[1]) \in DOMAIN after
                     /\ after[JoinPath(X, l[1])] = l[2]
                     /\ ~IsDict(after[JoinPath(X, l[1])])
                /\ DOMAIN after = DOMAIN before \cup keys
                /\ \A k \in DOMAIN before \ keys : after[k] = before[k]

\* The mapping three levels deep was flattened: X_a_b_c holds its leaf.
FlattenedThreeLevels ==
    /\ Called("update_context")
    /\ "X_a_b_c" \in DOMAIN outcome.value
    /\ outcome.value["X_a_b_c"] = Whole(1)
    /\ "X_a_e" \in DOMAIN outcome.value

\* ------------------------------------------------------------- C9
\* C9: execute_action returns; for a name outside the four tools the result
\* is a failure whose message names the function; for a recognised name it
\* is the tool's value under the function's name when the call returned, and
\* a failure carrying the exception text when the call raised.
ExecuteActionNeverRaises ==
    Called("execute_action") =>
      LET fn == call.args[1].s
          tool == CallTool(fn, call.args[2].m)
      IN  /\ ~outcome.raised
          /\ fn \notin AllowedFn =>
               /\ ~outcome.value.success
               /\ outcome.value.result = EmptyDict
               /\ EndsWith(outcome.value.message, fn)
               /\ outcome.value.message # fn
          /\ (fn \in AllowedFn /\ tool.raised) =>
               /\ ~outcome.value.success
               /\ outcome.value.result = EmptyDict
               /\ outcome.value.message = tool.exc
          /\ (fn \in AllowedFn /\ ~tool.raised) =>
               /\ outcome.value.success
               /\ outcome.value.result = (fn :> tool.value)

\* A division by zero inside a tool came back as a failure result.
DivisionByZeroWrapped ==
    /\ Called("execute_action")
    /\ call.args[1] = Str("apply_inflation_adjustment")
    /\ ~outcome.raised
    /\ ~outcome.value.success
    /\ outcome.value.message = "division by zero"

\* ------------------------------------------------------------- C10
\* C10: a calculator function called directly returns, whatever its input.
CalculatorsNeverRaise ==
    ( \/ Called("get_financial_data")
      \/ Called("calculate_roi")
      \/ Called("apply_inflation_adjustment") ) => ~outcome.raised

\* ------------------------------------------------------------- C11
\* The collaborator gives nothing for parameter k: its call failed, or its
\* answer is an object without k or with null under k.
GivesNothing(answer, k) ==
    \/ answer.kind = "fault"
    \/ /\ answer.kind = "text"
       /\ IsDict(answer.data)
       /\ (k \notin DOMAIN answer.data.m \/ answer.data.m[k] = None)

\* C11: for every parameter mapping, context and collaborator response,
\* resolve_params_with_llm returns a mapping with exactly the keys of the
\* input; a parameter that names a context key has the value of that key,
\* and a parameter for which the collaborator gives null or nothing has its
\* original literal.
ResolverReturnsTotalMapping ==
    Called("resolve_params_with_llm") =>
        LET params == call.args[1].m
            ctx == call.args[2].m
            answer == call.args[3]
        IN  /\ ~outcome.raised
            /\ DOMAIN outcome.value = DOMAIN params
            /\ \A k \in DOMAIN params :
                 /\ (IsStr(params[k]) /\ params[k].s \in DOMAIN ctx)
                       => outcome.value[k] = ctx[params[k].s]
                 /\ (~IsList(params[k]) /\ ~(IsStr(params[k]) /\ params[k].s \in DOMAIN ctx)
                       /\ GivesNothing(answer, k))
                       => outcome.value[k] = params[k]

\* ------------------------------------------------------------- C12
\* v names a key of the context.
NamesKey(v, ctx) == IsStr(v) /\ v.s \in DOMAIN ctx

\* The parameters with a value, or a sequence entry, that names no key.
Unmatched(params, ctx) ==
    {k \in DOMAIN params :
        IF IsList(params[k])
        THEN \E i \in 1..Len(params[k].v) : ~NamesKey(params[k].v[i], ctx)
        ELSE ~NamesKey(params[k], ctx)}

\* The parameters whose value is no sequence and names no key.
UnmatchedValues(params, ctx) ==
    {k \in DOMAIN params : ~IsList(params[k]) /\ ~NamesKey(params[k], ctx)}

\* Some sequence parameter holds an entry that cannot be looked up.
UnhashableEntry(params) ==
    \E k \in DOMAIN params :
        IsList(params[k]) /\ \E i \in 1..Len(params[k].v) : ~Hashable(params[k].v[i])

\* C12 as stated: the resolver calls the collaborator exactly when some
\* parameter has a value, or a sequence entry, that matched no context key;
\* the call carries the whole context and only those parameters; no call is
\* made when every parameter names an existing key.
CallsExactlyWhenUnmatched ==
    Called("resolve_params_with_llm") =>
        LET params == call.args[1].m
            ctx == call.args[2].m
            left == Unmatched(params, ctx)
        IN  /\ (outcome.calls = 1) <=> (left # {})
            /\ (outcome.calls = 1) =>
                  outcome.prompt = Prompt(ctx, [k \in left |-> params[k]])
            /\ (\A k \in DOMAIN params : NamesKey(params[k], ctx)) => outcome.calls = 0

\* C12 amended: the resolver calls the collaborator exactly when the context
\* is not empty, the context pass did not fail on an unhashable sequence
\* entry, and some parameter whose value is no sequence named no context key;
\* a sequence is never escalated, whatever its entries.  The call carries the
\* whole context and only those parameters; no call is made when every
\* parameter names an existing key.
CallsExactlyWhenValueUnmatched ==
    Called("resolve_params_with_llm") =>
        LET params == call.args[1].m
            ctx == call.args[2].m
            left == UnmatchedValues(params, ctx)
        IN  /\ (outcome.calls = 1) <=>
                  (left # {} /\ DOMAIN ctx # {} /\ ~UnhashableEntry(params))
            /\ outcome.calls \in {0, 1}
            /\ (outcome.calls = 1) =>
                  outcome.prompt = Prompt(ctx, [k \in left |-> params[k]])
            /\ (\A k \in DOMAIN params : NamesKey(params[k], ctx)) => outcome.calls = 0

\* A call that carried one of two parameters with the whole context, the
\* other parameter having been resolved from the context.
EscalatedOnlyTheUnmatchedValue ==
    /\ Called("resolve_params_with_llm")
    /\ outcome.calls = 1
    /\ DOMAIN outcome.prompt.unresolved = {"rate"}
    /\ DOMAIN call.args[1].m = {"values", "rate"}
    /\ outcome.prompt.context = ChainedContext

\* ------------------------------------------------------------- C13
\* C13: the resolver is idempotent: resolving what a resolution returned
\* again, against the same context, returns it unchanged.
ResolverIdempotent ==
    Called("resolve_twice") =>
        (~outcome.first.raised =>
            /\ ~outcome.second.raised
            /\ outcome.second.value = outcome.first.value)

\* ------------------------------------------------------------- C14
\* x is (r - i) / i * 100 when i > 0 and 0 otherwise, for numbers r and i:
\* the quotient is written as one fraction of integers.
IsRoiOf(x, r, i) ==
    IF i.n * i.d > 0
    THEN x = Num(100 * i.d * (r.n * i.d - i.n * r.d), r.d * i.d * i.n)
    ELSE x = Whole(0)

AllNumbers(l) == \A k \in 1..Len(l.v) : IsNum(l.v[k])

\* C14: calculate_roi on a pair of numbers returns
\* (revenue - investment) / investment * 100 when investment > 0 and 0 when
\* investment <= 0; on two sequences of numbers of equal length it returns
\* the sequence of these values pair by pair, in order and of that length.
RoiIsGainOverInvestment ==
    Called("calculate_roi") =>
        LET revenue == call.args[1]
            investment == call.args[2]
        IN  /\ (IsNum(revenue) /\ IsNum(investment)) =>
                  ~outcome.raised /\ IsRoiOf(outcome.value, revenue, investment)
            /\ (IsList(revenue) /\ IsList(investment)
                  /\ Len(revenue.v) = Len(investment.v)
                  /\ AllNumbers(revenue) /\ AllNumbers(investment)) =>
                  /\ ~outcome.raised
                  /\ IsList(outcome.value)
                  /\ Len(outcome.value.v) = Len(revenue.v)
                  /\ \A k \in 1..Len(revenue.v) :
                       IsRoiOf(outcome.value.v[k], revenue.v[k], investment.v[k])

\* [90.8, 85.3] over [24.6, 24.1]: the first entry is 66.2 / 24.6 * 100.
RoiOfTwoQuarters ==
    /\ Called("calculate_roi")
    /\ call.args = <<List(<<Tenths(908), Tenths(853)>>), List(<<Tenths(246), Tenths(241)>>)>>
    /\ ~outcome.raised
    /\ Len(outcome.value.v) = 2
    /\ outcome.value.v[1] = Num(33100, 123)

\* ------------------------------------------------------------- C15
\* v is an error value {error: reason}.
IsErrorValue(v) == IsDict(v) /\ DOMAIN v.m = {"error"} /\ IsStr(v.m["error"])

\* C15: given two sequences of different lengths, or one sequence and one
\* value that is no sequence, calculate_roi returns an error value and does
\* not raise, whatever the elements are.
RoiMismatchIsErrorValue ==
    Called("calculate_roi") =>
        LET revenue == call.args[1]
            investment == call.args[2]
        IN  (\/ IsList(revenue) /\ IsList(investment)
                  /\ Len(revenue.v) # Len(investment.v)
             \/ IsList(revenue) /\ ~IsList(investment)
             \/ ~IsList(revenue) /\ IsList(investment))
            => ~outcome.raised /\ IsErrorValue(outcome.value)

\* A one-entry sequence whose entry is no number against a two-entry one.
RoiRefusedUnequalLengths ==
    /\ Called("calculate_roi")
    /\ call.args = <<List(<<Str("n/a")>>), List(<<Tenths(246), Tenths(241)>>)>>
    /\ outcome = Returned(ErrorValue("Revenue and investment lists must be the same length"))

\* ------------------------------------------------------------- C16
\* C16 as stated: apply_inflation_adjustment(v, 0) returns v for any v.
AdjustByZeroIsIdentity ==
    (Called("apply_inflation_adjustment") /\ call.args[2] = Whole(0)) =>
        outcome = Returned(call.args[1])

\* C16 amended: apply_inflation_adjustment(v, 0) returns v when v is a number
\* or a sequence of numbers; for a sequence with an entry that is no number
\* it raises, and for any other v it returns the error value
\* {error: "Invalid input type for values"}.
AdjustByZeroIsIdentityOnNumbers ==
    (Called("apply_inflation_adjustment") /\ call.args[2] = Whole(0)) =>
        LET v == call.args[1]
        IN  CASE IsNum(v) -> outcome = Returned(v)
              [] IsList(v) /\ AllNumbers(v) -> outcome = Returned(v)
              [] IsList(v) /\ ~AllNumbers(v) -> outcome.raised
              [] OTHER -> outcome = Returned(ErrorValue("Invalid input type for values"))

\* [90.8, 85.3] adjusted by 0 came back as it was.
AdjustedTwoQuartersByZero ==
    /\ Called("apply_inflation_adjustment")
    /\ call.args = <<List(<<Tenths(908), Tenths(853)>>), Whole(0)>>
    /\ outcome = Returned(List(<<Tenths(908), Tenths(853)>>))

\* ------------------------------------------------------------- C17
KnownSymbol(v) == IsStr(v) /\ v.s \in DOMAIN DUMMY_DATA

\* The entries of a symbol under the given labels.
Entries(symbol, labels) ==
    Returned(Dict([q \in labels |-> DUMMY_DATA[symbol.s][q]]))

\* The labels of a symbol that contain the year.
LabelsOfYear(symbol, year) ==
    {q \in DOMAIN DUMMY_DATA[symbol.s] : Contains(q, year.s)}

LoadContextGivesLastSaved ==
    /\ mem_file.status \in {"absent", "bad"} => load_context(mem_file) = EmptyDict
    /\ mem_file.status = "ok" => load_context(mem_file) = ctx_last_iter

\* A finished run whose document holds the roi the run computed and saved.
DocumentHoldsTheRunsRoi ==
    /\ pc = "finished"
    /\ mem_file.status = "ok"
    /\ "calculate_roi" \in DOMAIN load_context(mem_file)
    /\ load_context(mem_file) = context
    /\ mem_file.state.history >= 1

\* ------------------------------------------------------------- C19
\* C19: no fault of any stage propagates out of main(): the run is never
\* ended by an exception that left main().
NoFaultLeavesMain == pc # "aborted"

\* ------------------------------------------------------------- C20
\* C20: for a generate_chart step execute_action returns a Tool Result with
\* success = True and the chart tool's result under the function's name.
ChartResultIsForwarded ==
    (Called("execute_action") /\ call.args[1] = Str("generate_chart")) =>
        /\ ~outcome.raised
        /\ outcome.value.success
        /\ DOMAIN outcome.value.result = {"generate_chart"}

\* ------------------------------------------------------------- C21
\* What the rule of the context pass gives for one value or entry: the
\* stored value when it names a key, the value itself otherwise.
Substituted(v, ctx) == IF NamesKey(v, ctx) THEN ctx[v.s] ELSE v

\* C21: the context pass replaces a parameter that is a string equal to a
\* context key by the stored value, replaces a sequence entry by entry under
\* the same rule (unmatched entries kept, length and order kept), and leaves
\* every other value unchanged.
ContextPassSubstitutes ==
    Called("resolve_params") =>
        LET params == call.args[1].m
            ctx == call.args[2].m
        IN  /\ ~outcome.raised
            /\ DOMAIN outcome.value = DOMAIN params
            /\ \A k \in DOMAIN params :
                 IF IsList(params[k])
                 THEN /\ IsList(outcome.value[k])
                      /\ Len(outcome.value[k].v) = Len(params[k].v)
                      /\ \A i \in 1..Len(params[k].v) :
                           outcome.value[k].v[i] = Substituted(params[k].v[i], ctx)
                 ELSE outcome.value[k] = Substituted(params[k], ctx)

\* ------------------------------------------------------------- C22
\* The step of the iteration under way, or of the one just saved.
AfterExecute ==
    \/ pc \in {"update", "save"}
    \/ pc = "write" /\ ret = "plan"
    \/ pc = "plan" /\ step_count >= 1

\* The last tool result is an error value.
ToolGaveErrorValue ==
    LET fn == d_plan.next_step.function_name
    IN  /\ AfterExecute
        /\ ao.success
        /\ fn \in DOMAIN ao.result
        /\ IsErrorValue(ao.result[fn])

\* C22: a tool's error value {error: reason} is reported by execute_action
\* as success = True with the value under the function's name; the driver
\* then writes <function_name>_error with the reason into the context and
\* the saved document holds it; success = False comes only from a raised
\* exception or an unknown function name.
ErrorValueIsSuccessAndStored ==
    /\ pc = "update" =>
         LET fn == d_plan.next_step.function_name
         IN  IF fn \notin AllowedFn
             THEN ~ao.success
             ELSE LET tool == CallTool(fn, resolved_params)
                  IN  /\ ao.success <=> ~tool.raised
                      /\ (~tool.raised /\ IsErrorValue(tool.value)) =>
                            ao.result = (fn :> tool.value)
    /\ (ToolGaveErrorValue /\ pc # "update") =>
         LET key == d_plan.next_step.function_name \o "_error"
             reason == ao.result[d_plan.next_step.function_name].m["error"]
         IN  /\ key \in DOMAIN context
             /\ context[key] = reason
             /\ pc = "plan" =>
                  /\ mem_file.status = "ok"
                  /\ key \in DOMAIN load_context(mem_file)
                  /\ load_context(mem_file)[key] = reason

\* A fetch of the unknown symbol TSLA was a success and its reason is in the
\* context and in the saved document.
UnknownSymbolStoredAsError ==
    /\ pc = "plan"
    /\ ToolGaveErrorValue
    /\ d_plan.next_step.function_name = "get_financial_data"
    /\ "get_financial_data_error" \in DOMAIN context
    /\ context["get_financial_data_error"] = Str("No data available for symbol TSLA")
    /\ load_context(mem_file)["get_financial_data_error"]
          = Str("No data available for symbol TSLA")

\* ------------------------------------------------------------- C23
\* A decodable answer whose function_name is null or no allowed name.
NamesNoTool(resp) ==
    /\ resp.kind = "text"
    /\ resp.fence \in {"none", "json", "bare"}
    /\ IsDict(resp.data)
    /\ "function_name" \in DOMAIN resp.data.m
    /\ ~(IsStr(resp.data.m["function_name"])
           /\ resp.data.m["function_name"].s \in AllowedFn)

\* C23: decide_next_step returns done = TRUE without a next step, or
\* done = FALSE with a next step named by one of the four allowed names; every
\* executed step is so named; an answer naming a null or unknown function
\* ends the run as DONE; no result of the loop is an 'Unknown tool' failure.
OnlyAllowedStepsRun ==
    /\ [](pc = "decided" =>
            \/ d_plan.done /\ d_plan.next_step = NoStep
            \/ /\ ~d_plan.done
               /\ d_plan.next_step # NoStep
               /\ d_plan.next_step.function_name \in AllowedFn)
    /\ [](\A i \in 1..Len(executed_steps) :
            executed_steps[i].function_name \in AllowedFn)
    /\ [](\A i \in 1..Len(results) : ~IsPrefix("Unknown tool", results[i].message))
    /\ []((pc = "decided" /\ NamesNoTool(plan_resp)) => d_plan.done)
    /\ [][(pc = "decided" /\ NamesNoTool(plan_resp)) => pc' = "complete"]_vars

\* After an executed step the planner was answered with the unknown function
\* download_prompt, and the run went to COMPLETE.
UnknownFunctionEndedTheRun ==
    /\ pc = "complete"
    /\ plan_resp = Text("json", StepJson("download_prompt", EmptyDict))
    /\ d_plan.done
    /\ Len(executed_steps) >= 1

\* ------------------------------------------------------------- C24
\* The keys and values a result res of function fn is to be stored under:
\* fn itself for a value that is no mapping, fn joined with the sub-keys of
\* each leaf for a mapping.
StoredUnder(fn, res) ==
    IF IsDict(res)
    THEN {<<JoinPath(fn, l[1]), l[2]>> : l \in Leaves(res.m)}
    ELSE {<<fn, res>>}

====
